---------------------------- MODULE Spec2Model ----------------------------
(***************************************************************************)
(* Model of cenv::substitute_vars (src/cenv.cc), the single-pass variable  *)
(* substitution automaton, and of operator << that runs it on a string.    *)
(*                                                                         *)
(* Strings are sequences of one-character strings; the variable mapping is *)
(* a function from names (sequences) to values (sequences).                *)
(***************************************************************************)
EXTENDS Integers, Sequences, FiniteSets, TLC

(***************************************************************************)
(* Bounds and program constants                                            *)
(***************************************************************************)
\* longest template drawn exhaustively from Alphabet
MaxLen == 5

\* longest template drawn exhaustively for the termination check
MaxLenLive == 4

\* longest run of '$' characters used as a template
MaxDollars == 6

\* depth limit of the frame stack (push)
StackLimit == 1024

\* the identifier character class (case labels '_', 'a'..'z', 'A'..'Z', '0'..'9');
\* the model uses a few representatives
IdentChars == {"A", "B", "X", "a", "_", "0"}

\* characters that appear in exhaustively enumerated templates:
\* '$', '{', '}', one identifier character and one other character
Alphabet == {"$", "{", "}", "A", "/"}

\* characters of the default case that are not identifier characters
OtherChars == {"/", "!"}

Errors ==
  {"UnknownVariable", "UnterminatedBracedVariable", "InvalidVariableStart",
   "RecursionLimitExceeded"}

(***************************************************************************)
(* Variable mappings the caller may supply                                 *)
(***************************************************************************)
EmptyMap == [k \in {} |-> <<>>]

Vars1 ==
  (<<"A">> :> <<"v">>) @@ (<<"A", "A">> :> <<"w", "w">>) @@
  (<<"B">> :> <<"X">>) @@ (<<"A", "X">> :> <<"h", "i">>) @@
  (<<"A", "B">> :> <<"u">>) @@ (<<"X">> :> <<"$", "B">>)

Vars2 ==
  (<<"A">> :> <<"$", "B">>) @@ (<<"a">> :> <<"l">>) @@
  (<<"A", "}">> :> <<"c">>) @@ (<<"A", "$">> :> <<"d">>)

Vars3 == (<<"A">> :> <<>>) @@ (<<>> :> <<"A">>)

Mappings == {EmptyMap, Vars1, Vars2, Vars3}

(***************************************************************************)
(* Templates                                                               *)
(***************************************************************************)
SeqsUpTo(S, n) == UNION {[1..k -> S] : k \in 0..n}

\* n copies of the sequence s
Rep(s, n) == [i \in 1..(n * Len(s)) |-> s[((i - 1) % Len(s)) + 1]]

\* n nested "${" opens followed by m closing braces
Nested(n, m) == Rep(<<"$", "{">>, n) \o Rep(<<"}">>, m)

ShortTemplates == SeqsUpTo(Alphabet, MaxLen)

DollarTemplates == {Rep(<<"$">>, k) : k \in 0..MaxDollars}

ExampleTemplates ==
  { <<"$", "A", "B">>, <<"$", "A", "/", "B">>, <<"$", "A", "$", "B">>,
    <<"$", "{", "A", "$", "{", "B", "}", "}">>,
    <<"$", "{", "B", "}">>, <<"$", "{", "A", "B", "}", "/", "!">>,
    <<"$", "{", "A", "}", "B", "/">>, <<"$", "{", "A", "B", "}", "A", "B">>,
    <<"$", "!">>, <<"$", "a">>, <<"!", "{", "/", "}", "A", "}", "{">>,
    <<"$", "X">>, <<"$", "{", "X", "}">>, <<"$", "A", "$", "!">>,
    <<"$", "A", "A", "{", "A", "}", "$", "/">> }

DeepTemplates ==
  { Nested(StackLimit, StackLimit), Nested(StackLimit + 1, 0),
    Nested(StackLimit, StackLimit - 1) }

VARIABLES
  template,      \* subst.input, the text behind the istream
  variables,     \* the name -> value mapping
  pos,           \* index of the next character input.get will deliver
  pc,            \* "scan" (input loop), "drain" (end-of-input loop), "done"
  after_dollar,  \* bool after_dollar
  stack,         \* std::stack<stack_entry>, top is the last element
  output,        \* characters written to the ostream by this call
  status,        \* "running", "ok" or the kind of the syntax_exception thrown
  err,           \* payload of the exception message (name or character)
  lookups,       \* history: keys passed to lookup, in order
  pushes         \* history: number of frames emplaced

vars ==
  <<template, variables, pos, pc, after_dollar, stack, output, status, err,
    lookups, pushes>>

\* the locals of one call as a record
State ==
  [after_dollar |-> after_dollar, stack |-> stack, output |-> output,
   status |-> status, err |-> err, lookups |-> lookups, pushes |-> pushes]

(***************************************************************************)
(* Helper lambdas of substitute_vars                                       *)
(***************************************************************************)
stack_entry(braced) == [braced |-> braced, contents |-> <<>>]

Top(stk) == stk[Len(stk)]

Front(stk) == SubSeq(stk, 1, Len(stk) - 1)

is_braced(stk) == stk # <<>> /\ Top(stk).braced

is_unbraced(stk) == stk # <<>> /\ ~Top(stk).braced

throw(s, kind, arg) == [s EXCEPT !.status = kind, !.err = arg]

\* push with the depth test inverted
push_inverted(s, braced) ==
  IF Len(s.stack) < StackLimit
    THEN throw(s, "RecursionLimitExceeded", <<>>)
    ELSE [s EXCEPT !.stack = Append(@, stack_entry(braced)),
                   !.pushes = @ + 1]

push(s, braced) ==
  IF Len(s.stack) >= StackLimit
    THEN throw(s, "RecursionLimitExceeded", <<>>)
    ELSE [s EXCEPT !.stack = Append(@, stack_entry(braced)),
                   !.pushes = @ + 1]

\* write that appends to the bottom frame instead of the top one
write_to_bottom(s, ch) ==
  IF s.stack # <<>>
    THEN [s EXCEPT !.stack[1].contents = Append(@, ch)]
    ELSE [s EXCEPT !.output = Append(@, ch)]

write(s, ch) ==
  IF s.stack # <<>>
    THEN [s EXCEPT !.stack[Len(s.stack)].contents = Append(@, ch)]
    ELSE [s EXCEPT !.output = Append(@, ch)]

\* write_str that ignores the frame stack
write_str_to_output(s, str) == [s EXCEPT !.output = @ \o str]

\* write_str that treats a leading '$' of the value as syntax
write_str_rescan(s, str) ==
  IF str # <<>> /\ str[1] = "$"
    THEN IF s.stack # <<>>
           THEN [s EXCEPT !.stack[Len(s.stack)].contents = @ \o Tail(str),
                          !.after_dollar = TRUE]
           ELSE [s EXCEPT !.output = @ \o Tail(str), !.after_dollar = TRUE]
    ELSE IF s.stack # <<>>
           THEN [s EXCEPT !.stack[Len(s.stack)].contents = @ \o str]
           ELSE [s EXCEPT !.output = @ \o str]

write_str(s, str) ==
  IF s.stack # <<>>
    THEN [s EXCEPT !.stack[Len(s.stack)].contents = @ \o str]
    ELSE [s EXCEPT !.output = @ \o str]

\* lookup that yields an empty value for a missing key
lookup_default(s, key) ==
  [st |-> [s EXCEPT !.lookups = Append(@, key)],
   value |-> IF key \in DOMAIN variables THEN variables[key] ELSE <<>>]

\* lookup returns the mapped value or throws; st is the state afterwards
lookup(s, key) ==
  IF key \in DOMAIN variables
    THEN [st |-> [s EXCEPT !.lookups = Append(@, key)],
          value |-> variables[key]]
    ELSE [st |-> throw([s EXCEPT !.lookups = Append(@, key)],
                       "UnknownVariable", key),
          value |-> <<>>]

pop(s) ==
  LET str == Top(s.stack).contents
      r == lookup([s EXCEPT !.stack = Front(@)], str)
  IN  IF r.st.status = "running" THEN write_str(r.st, r.value) ELSE r.st

(***************************************************************************)
(* The cases of the switch                                                 *)
(***************************************************************************)
\* '$' case whose escape branch leaves after_dollar set
case_dollar_sticky(s) ==
  IF s.after_dollar
    THEN write(s, "$")
    ELSE LET s1 == IF is_unbraced(s.stack) THEN pop(s) ELSE s
         IN  IF s1.status = "running"
               THEN [s1 EXCEPT !.after_dollar = TRUE]
               ELSE s1

case_dollar(s) ==
  IF s.after_dollar
    THEN write([s EXCEPT !.after_dollar = FALSE], "$")
    ELSE LET s1 == IF is_unbraced(s.stack) THEN pop(s) ELSE s
         IN  IF s1.status = "running"
               THEN [s1 EXCEPT !.after_dollar = TRUE]
               ELSE s1

\* '{' case that opens a frame without a preceding '$'
case_open_always(s) == push([s EXCEPT !.after_dollar = FALSE], TRUE)

case_open(s) ==
  IF s.after_dollar
    THEN push([s EXCEPT !.after_dollar = FALSE], TRUE)
    ELSE LET s1 == IF is_unbraced(s.stack) THEN pop(s) ELSE s
         IN  IF s1.status = "running" THEN write(s1, "{") ELSE s1

case_close(s) ==
  IF is_braced(s.stack) /\ ~s.after_dollar
    THEN pop(s)
    ELSE write([s EXCEPT !.after_dollar = FALSE], "}")

case_ident(s, ch) ==
  LET s1 == IF s.after_dollar THEN push(s, FALSE) ELSE s
  IN  IF s1.status = "running" THEN write(s1, ch) ELSE s1

\* default case that breaks before writing the character
case_default_drop(s, ch) ==
  IF is_unbraced(s.stack)
    THEN pop(s)
    ELSE IF s.after_dollar
           THEN throw(s, "InvalidVariableStart", <<ch>>)
           ELSE s

case_default(s, ch) ==
  IF is_unbraced(s.stack)
    THEN pop(s)
    ELSE IF s.after_dollar
           THEN throw(s, "InvalidVariableStart", <<ch>>)
           ELSE case_ident(s, ch)

\* end-of-input iteration that leaves an unbraced frame on the stack
drain_step_stuck(s) ==
  IF is_braced(s.stack)
    THEN throw(s, "UnterminatedBracedVariable", <<>>)
    ELSE s

\* end-of-input iteration that discards a braced frame
drain_step_discard(s) ==
  IF is_braced(s.stack)
    THEN [s EXCEPT !.stack = Front(@)]
    ELSE pop(s)

\* one iteration of the end-of-input loop, stack non-empty
drain_step(s) ==
  IF is_braced(s.stack)
    THEN throw(s, "UnterminatedBracedVariable", <<>>)
    ELSE pop(s)

(***************************************************************************)
(* Actions                                                                 *)
(***************************************************************************)
Commit(s) ==
  /\ after_dollar' = s.after_dollar
  /\ stack' = s.stack
  /\ output' = s.output
  /\ status' = s.status
  /\ err' = s.err
  /\ lookups' = s.lookups
  /\ pushes' = s.pushes

HasChar == pc = "scan" /\ pos <= Len(template)

Cur == template[pos]

Consume(s) ==
  /\ Commit(s)
  /\ pos' = pos + 1
  /\ pc' = IF s.status = "running" THEN "scan" ELSE "done"
  /\ UNCHANGED <<template, variables>>

Dollar == HasChar /\ Cur = "$" /\ Consume(case_dollar(State))

OpenBrace == HasChar /\ Cur = "{" /\ Consume(case_open(State))

CloseBrace == HasChar /\ Cur = "}" /\ Consume(case_close(State))

Ident == HasChar /\ Cur \in IdentChars /\ Consume(case_ident(State, Cur))

Other == HasChar /\ Cur \in OtherChars /\ Consume(case_default(State, Cur))

\* end of input that writes a pending '$' as a literal
EndOfInput_literal ==
  /\ pc = "scan" /\ pos > Len(template)
  /\ pc' = "drain"
  /\ Commit(IF after_dollar THEN write(State, "$") ELSE State)
  /\ UNCHANGED <<template, variables, pos>>

\* input.get fails: leave the input loop
EndOfInput ==
  /\ pc = "scan" /\ pos > Len(template)
  /\ pc' = "drain"
  /\ UNCHANGED <<template, variables, pos, after_dollar, stack, output,
                 status, err, lookups, pushes>>

Drain ==
  /\ pc = "drain" /\ stack # <<>>
  /\ LET s == drain_step(State)
     IN  /\ Commit(s)
         /\ pc' = IF s.status = "running" THEN "drain" ELSE "done"
  /\ UNCHANGED <<template, variables, pos>>

Return ==
  /\ pc = "drain" /\ stack = <<>>
  /\ pc' = "done"
  /\ status' = "ok"
  /\ UNCHANGED <<template, variables, pos, after_dollar, stack, output, err,
                 lookups, pushes>>

InitWith(T, M) ==
  /\ template \in T
  /\ variables \in M
  /\ pos = 1
  /\ pc = "scan"
  /\ after_dollar = FALSE
  /\ stack = <<>>
  /\ output = <<>>
  /\ status = "running"
  /\ err = <<>>
  /\ lookups = <<>>
  /\ pushes = 0

Init ==
  InitWith(ShortTemplates \cup DollarTemplates \cup ExampleTemplates, Mappings)

Next ==
  \/ Dollar
  \/ OpenBrace
  \/ CloseBrace
  \/ Ident
  \/ Other
  \/ EndOfInput
  \/ Drain
  \/ Return

Spec == Init /\ [][Next]_vars

\* the same automaton run on deeply nested templates
InitDeep ==
  InitWith(DeepTemplates \cup ExampleTemplates, {EmptyMap, Vars1, Vars3})

SpecDeep == InitDeep /\ [][Next]_vars

\* the call runs on one thread and always takes its next step
InitLive ==
  InitWith(SeqsUpTo(Alphabet, MaxLenLive) \cup ExampleTemplates, Mappings)

SpecLive == InitLive /\ [][Next]_vars /\ WF_vars(Next)

TypeOK ==
  /\ pc \in {"scan", "drain", "done"}
  /\ status \in {"running", "ok"} \cup Errors
  /\ after_dollar \in BOOLEAN
  /\ pos \in 1..(Len(template) + 1)
  /\ (pc = "done") = (status # "running")

(***************************************************************************)
(* Properties                                                              *)
(***************************************************************************)
Range(f) == {f[i] : i \in DOMAIN f}

Last(q) == q[Len(q)]

Finished == pc = "done"

IsName(n) == Len(n) >= 1 /\ Range(n) \subseteq IdentChars

\* the template is "${" N "}" t with N a name and t free of '$', '{', '}'
BracedRefAt(k) ==
  /\ k \in 4..Len(template)
  /\ template[1] = "$" /\ template[2] = "{" /\ template[k] = "}"
  /\ IsName(SubSeq(template, 3, k - 1))
  /\ Range(SubSeq(template, k + 1, Len(template))) \cap {"$", "{", "}"} = {}

\* C1: for a name N in the mapping, expand("$N") succeeds, looks up the whole
\* run N exactly once and nothing else, and outputs exactly variables[N].
C1_UnbracedMaximalMunch ==
  (/\ Finished
   /\ Len(template) >= 2 /\ template[1] = "$"
   /\ IsName(Tail(template))
   /\ Tail(template) \in DOMAIN variables)
  => /\ status = "ok"
     /\ output = variables[Tail(template)]
     /\ lookups = <<Tail(template)>>
     /\ stack = <<>>

\* C2: for a one-character name a in the mapping, a non-identifier character
\* o other than '$', '{', '}' and a text t of such characters,
\* expand("$a" o t) outputs variables[a] followed by o and t: the character
\* that ends the unbraced name is written, none is lost.
C2_LazyCloseKeepsChar ==
  (/\ Finished
   /\ Len(template) >= 3 /\ template[1] = "$"
   /\ template[2] \in IdentChars
   /\ <<template[2]>> \in DOMAIN variables
   /\ Range(SubSeq(template, 3, Len(template))) \subseteq OtherChars)
  => /\ status = "ok"
     /\ output = variables[<<template[2]>>]
                   \o SubSeq(template, 3, Len(template))

\* C3: for a name N in the mapping and a text t free of '$', '{' and '}',
\* expand("${N}" t) succeeds and outputs variables[N] followed by t.
C3_BracedReference ==
  \A k \in 1..Len(template) :
    (/\ Finished
     /\ BracedRefAt(k)
     /\ SubSeq(template, 3, k - 1) \in DOMAIN variables)
    => /\ status = "ok"
       /\ output = variables[SubSeq(template, 3, k - 1)]
                     \o SubSeq(template, k + 1, Len(template))
       /\ lookups = <<SubSeq(template, 3, k - 1)>>

C3_Witness ==
  /\ Finished
  /\ template = <<"$", "{", "A", "B", "}", "/", "!">>
  /\ variables = Vars1
  /\ status = "ok"
  /\ output = <<"u", "/", "!">>

\* C4: closing an inner braced frame while an outer braced frame is open
\* appends the inner frame's value to the outer frame's name and leaves the
\* output alone; expand("${A${B}}") with B -> X and AX -> hi looks up B, then
\* AX, and outputs hi.
C4_NestedComposition ==
  /\ []((/\ Finished
         /\ template = <<"$", "{", "A", "$", "{", "B", "}", "}">>
         /\ variables = Vars1)
        => /\ status = "ok"
           /\ output = <<"h", "i">>
           /\ lookups = << <<"B">>, <<"A", "X">> >>)
  /\ [][(/\ HasChar /\ Cur = "}" /\ ~after_dollar
         /\ Len(stack) >= 2
         /\ stack[Len(stack)].braced /\ stack[Len(stack) - 1].braced
         /\ Top(stack).contents \in DOMAIN variables)
        => /\ stack' = [Front(stack) EXCEPT ![Len(stack) - 1].contents =
                          @ \o variables[Top(stack).contents]]
           /\ output' = output
           /\ status' = "running"]_vars

C4_Witness ==
  /\ Finished
  /\ template = <<"$", "{", "A", "$", "{", "B", "}", "}">>
  /\ variables = Vars1
  /\ status = "ok"
  /\ output = <<"h", "i">>

\* C5: when the call fails with any of the four errors, the output stream
\* holds no character written by that call.
C5_AllOrNothing == status \in Errors => output = <<>>

\* C6: on a template without '$' the call succeeds with the template itself
\* as output, never pushes a frame and never performs a lookup.
C6_IdentityDollarFree ==
  ("$" \notin Range(template))
  => /\ stack = <<>> /\ pushes = 0 /\ lookups = <<>>
     /\ ~after_dollar
     /\ status \in {"running", "ok"}
     /\ output = SubSeq(template, 1, pos - 1)
     /\ (Finished => status = "ok" /\ output = template)

C6_Witness ==
  /\ Finished
  /\ template = <<"!", "{", "/", "}", "A", "}", "{">>
  /\ variables = Vars1
  /\ output = template

\* C7: a template of 2n '$' characters succeeds with n '$' characters of
\* output for every mapping; after each pair one '$' has been written and
\* after_dollar is false.
C7_DollarEscape ==
  (Range(template) \subseteq {"$"} /\ Len(template) % 2 = 0)
  => /\ stack = <<>> /\ lookups = <<>>
     /\ status \in {"running", "ok"}
     /\ ((pos - 1) % 2 = 0
           => ~after_dollar /\ output = Rep(<<"$">>, (pos - 1) \div 2))
     /\ (Finished
           => status = "ok" /\ output = Rep(<<"$">>, Len(template) \div 2))

C7_Witness ==
  /\ Finished
  /\ template = <<"$", "$", "$", "$">>
  /\ status = "ok"
  /\ output = <<"$", "$">>

\* C8: the stack never holds more than 1024 frames; a push at depth 1024
\* fails with RecursionLimitExceeded and leaves the stack as it was; 1025
\* nested "${" opens fail, 1024 nested opens each closed succeed when every
\* assembled name resolves.
C8_DepthBound ==
  /\ [](/\ Len(stack) <= StackLimit
        /\ pushes <= StackLimit
        /\ (status = "RecursionLimitExceeded" => Len(stack) = StackLimit)
        /\ (Finished /\ template = Nested(StackLimit + 1, 0)
              => status = "RecursionLimitExceeded")
        /\ (Finished /\ template = Nested(StackLimit, StackLimit)
                     /\ variables = Vars3
              => status = "ok" /\ pushes = StackLimit /\ output = <<>>))
  /\ [][/\ (status' = "RecursionLimitExceeded"
              => stack' = stack /\ pushes' = pushes /\ output' = output)
        /\ (HasChar /\ Len(stack) = StackLimit /\ after_dollar
              /\ Cur \in {"{"} \cup IdentChars
              => status' = "RecursionLimitExceeded")]_vars

C8_Witness ==
  /\ Finished
  /\ template = Nested(StackLimit + 1, 0)
  /\ status = "RecursionLimitExceeded"
  /\ Len(stack) = StackLimit

\* C9: every frame close whose name is not in the mapping fails with
\* UnknownVariable carrying exactly that name, writes nothing and ends the
\* scan; names are compared exactly (case-sensitive).
C9_UnknownVariable ==
  /\ []((Finished /\ template = <<"$", "{", "B", "}">> /\ variables = EmptyMap)
        => status = "UnknownVariable" /\ err = <<"B">> /\ output = <<>>)
  /\ []((Finished /\ template = <<"$", "a">> /\ variables = Vars1)
        => status = "UnknownVariable" /\ err = <<"a">>)
  /\ [](status = "UnknownVariable"
        => Finished /\ err \notin DOMAIN variables /\ lookups # <<>>
           /\ err = Last(lookups))
  /\ [][Len(stack') < Len(stack)
        => /\ lookups' = Append(lookups, Top(stack).contents)
           /\ (Top(stack).contents \notin DOMAIN variables
                 => /\ status' = "UnknownVariable"
                    /\ err' = Top(stack).contents
                    /\ pc' = "done"
                    /\ output' = output
                    /\ stack' = Front(stack))]_vars
  /\ [][status = "UnknownVariable" => FALSE]_vars

C9_Witness ==
  /\ Finished
  /\ template = <<"$", "{", "B", "}">>
  /\ variables = EmptyMap
  /\ status = "UnknownVariable"
  /\ err = <<"B">>

\* C10: the end-of-input loop starts after the last character and takes the
\* innermost frame each time: a braced frame fails the call with
\* UnterminatedBracedVariable, an unbraced frame is resolved and the loop
\* goes on.  No call succeeds with a braced frame open at end of input and
\* every successful call ends with an empty stack.
C10_EndOfInput ==
  /\ [](/\ (pc = "drain" => pos = Len(template) + 1)
        /\ (status = "ok" => stack = <<>> /\ pos = Len(template) + 1)
        /\ (Finished /\ template = <<"$", "{", "A">>
              => status = "UnterminatedBracedVariable"))
  /\ [][(pc = "drain" /\ stack # <<>>)
        => IF Top(stack).braced
             THEN /\ status' = "UnterminatedBracedVariable"
                  /\ pc' = "done"
                  /\ output' = output
             ELSE /\ lookups' = Append(lookups, Top(stack).contents)
                  /\ status' \in {"running", "UnknownVariable"}
                  /\ (status' = "running"
                        => /\ pc' = "drain"
                           /\ Len(stack') = Len(stack) - 1)]_vars
  /\ [][(pc = "drain" /\ \E i \in DOMAIN stack : stack[i].braced)
        => /\ status' # "ok"
           /\ (status' = "running"
                 => \E i \in DOMAIN stack' : stack'[i].braced)]_vars

C10_Witness ==
  /\ Finished
  /\ template = <<"$", "{", "$", "A">>
  /\ variables = Vars1
  /\ status = "UnterminatedBracedVariable"
  /\ lookups = << <<"A">> >>

\* largest index below p whose character is not '$', 0 when there is none
LastNonDollarBefore(p) ==
  LET S == {0} \cup {j \in 1..(p - 1) : template[j] # "$"}
  IN  CHOOSE m \in S : \A j \in S : j <= m

\* the character at p is a '$' that is not the second half of a "$$" pair
UnescapedDollarAt(p) ==
  /\ p \in 1..Len(template)
  /\ template[p] = "$"
  /\ (p - 1 - LastNonDollarBefore(p)) % 2 = 0

\* C11: when an unescaped '$' is immediately followed by a character that is
\* not '$', '{' or an identifier character, the call fails at that character
\* with InvalidVariableStart carrying it, whatever the frame stack holds.
C11_InvalidVariableStart ==
  /\ []((Finished /\ template = <<"$", "!">>)
        => status = "InvalidVariableStart" /\ err = <<"!">>)
  /\ [][(HasChar /\ Cur \in OtherChars /\ UnescapedDollarAt(pos - 1))
        => status' = "InvalidVariableStart" /\ err' = <<Cur>>]_vars

\* C12: the characters of a looked-up value are appended to the sink as they
\* are: a successful lookup removes one frame, appends the value (and the
\* literal '{' that the '{' case writes after it) to the new sink, pushes
\* nothing, looks nothing else up and leaves after_dollar to the consumed
\* character alone; expand("$X") with X -> "$B" outputs "$B" whether or not
\* B is mapped.
C12_ValuesNotRescanned ==
  /\ []((/\ Finished
         /\ template \in {<<"$", "X">>, <<"$", "{", "X", "}">>}
         /\ variables = Vars1)
        => status = "ok" /\ output = <<"$", "B">> /\ lookups = << <<"X">> >>)
  /\ []((/\ Finished
         /\ template \in {<<"$", "A">>, <<"$", "{", "A", "}">>}
         /\ variables = Vars2)
        => status = "ok" /\ output = <<"$", "B">> /\ lookups = << <<"A">> >>)
  /\ [][(lookups' # lookups /\ status' = "running")
        => LET val == variables[Top(stack).contents]
               lit == IF pc = "scan" /\ Cur = "{" THEN <<"{">> ELSE <<>>
           IN  /\ lookups' = Append(lookups, Top(stack).contents)
               /\ pushes' = pushes
               /\ after_dollar' = IF pc = "scan" /\ Cur = "$"
                                    THEN TRUE ELSE after_dollar
               /\ IF Len(stack) = 1
                    THEN stack' = <<>> /\ output' = output \o val \o lit
                    ELSE /\ output' = output
                         /\ stack' =
                              [Front(stack) EXCEPT ![Len(stack) - 1].contents =
                                 @ \o val \o lit]]_vars

C12_Witness ==
  /\ Finished
  /\ template = <<"$", "X">>
  /\ variables = Vars1
  /\ status = "ok"
  /\ output = <<"$", "B">>

\* C13: after_dollar is true only right after a '$' that set it, and every
\* character consumed while it is true leaves it false or fails the call; an
\* identifier character consumed while it is true pushes one unbraced frame
\* and clears it, so the later characters of the name push nothing.
C13_PendingDollarLifetime ==
  /\ []((status = "running" /\ after_dollar)
        => pos > 1 /\ template[pos - 1] = "$")
  /\ [][(HasChar /\ after_dollar)
        => ~after_dollar' \/ status' \in Errors]_vars
  /\ [][(HasChar /\ ~after_dollar /\ Cur \in IdentChars)
        => pushes' = pushes]_vars

\* C14: a '$' consumed while after_dollar is false and the top frame is
\* unbraced resolves that frame and then sets after_dollar; for one-character
\* names a and b in the mapping expand("$a$b") succeeds and outputs
\* variables[a] followed by variables[b].
C14_AdjacentUnbraced ==
  /\ []((/\ Finished
         /\ Len(template) = 4
         /\ template[1] = "$" /\ template[3] = "$"
         /\ template[2] \in IdentChars /\ template[4] \in IdentChars
         /\ <<template[2]>> \in DOMAIN variables
         /\ <<template[4]>> \in DOMAIN variables)
        => /\ status = "ok"
           /\ output = variables[<<template[2]>>] \o variables[<<template[4]>>])
  /\ [][(/\ HasChar /\ Cur = "$" /\ ~after_dollar /\ is_unbraced(stack)
         /\ Top(stack).contents \in DOMAIN variables)
        => /\ after_dollar'
           /\ Len(stack') = Len(stack) - 1
           /\ lookups' = Append(lookups, Top(stack).contents)]_vars

\* C15: in every reachable state the accumulated text of every open frame,
\* braced or unbraced, holds identifier characters only.
C15_FrameContentsIdentifier ==
  \A i \in DOMAIN stack : Range(stack[i].contents) \subseteq IdentChars

\* C16: every write goes to the frame on top of the stack at the moment of
\* the write, and to the output only when the stack is empty then: the output
\* grows in a step only if the stack is empty after it, text is only ever
\* appended, a step that leaves the stack non-empty appends nothing to the
\* output, and no frame below the top is modified.
IsPrefix(a, b) == Len(a) <= Len(b) /\ SubSeq(b, 1, Len(a)) = a

C16_SinkResolution ==
  [][/\ IsPrefix(output, output')
     /\ (output' # output => stack' = <<>>)
     /\ \A i \in 1..(Len(stack') - 1) :
          i <= Len(stack) => stack'[i] = stack[i]
     /\ (Len(stack') >= 1 /\ Len(stack') <= Len(stack)
           => /\ stack'[Len(stack')].braced = stack[Len(stack')].braced
              /\ IsPrefix(stack[Len(stack')].contents,
                          stack'[Len(stack')].contents))
     /\ (HasChar /\ status' = "running" /\ Len(stack') = Len(stack)
           /\ stack # <<>> /\ ~(Cur = "$" /\ ~after_dollar)
           => Top(stack').contents = Append(Top(stack).contents, Cur))
     /\ (HasChar /\ status' = "running" /\ stack = <<>> /\ stack' = <<>>
           /\ ~(Cur = "$" /\ ~after_dollar)
           => output' = Append(output, Cur))]_vars

C16_Witness ==
  /\ template = <<"$", "{", "A", "$", "{", "B", "}", "}">>
  /\ variables = Vars1
  /\ lookups = << <<"B">> >>
  /\ Len(stack) = 1
  /\ stack[1].contents = <<"A", "X">>
  /\ output = <<>>

\* C17: every call terminates, with success or with one of the four errors;
\* each step of the scan consumes one character, and each iteration of the
\* end-of-input loop removes one frame or fails.
C17_Termination ==
  /\ <>(Finished /\ status \in {"ok"} \cup Errors)
  /\ [][HasChar => pos' = pos + 1]_vars
  /\ [][pc = "drain" => pos' = pos]_vars
  /\ [][(pc = "drain" /\ stack # <<>>)
        => \/ status' \in Errors /\ pc' = "done"
           \/ status' = "running" /\ Len(stack') = Len(stack) - 1]_vars
  /\ [][Finished => FALSE]_vars

C17_Witness ==
  /\ Finished
  /\ template = <<"$", "A", "A">>
  /\ variables = Vars3
  /\ status = "ok"
  /\ Len(lookups) = 2
  /\ pos = 4

\* C18: only the top frame of the stack can be unbraced, and after_dollar is
\* never true while the top frame is unbraced.
C18_StackShape ==
  /\ \A i \in 1..(Len(stack) - 1) : stack[i].braced
  /\ ~(after_dollar /\ is_unbraced(stack))

\* C19: when the input ends while after_dollar is true, nothing is written
\* and no error is raised for that '$'; with an empty stack the call
\* succeeds, so a template of 2n+1 '$' characters succeeds with n '$'
\* characters of output.
C19_TrailingDollar ==
  /\ []((/\ Finished
         /\ Range(template) \subseteq {"$"}
         /\ Len(template) % 2 = 1)
        => /\ status = "ok"
           /\ after_dollar
           /\ output = Rep(<<"$">>, (Len(template) - 1) \div 2))
  /\ [][(pc = "scan" /\ pos > Len(template) /\ after_dollar)
        => /\ pc' = "drain"
           /\ status' = "running"
           /\ output' = output
           /\ stack' = stack]_vars
  /\ [][(pc = "drain" /\ stack = <<>> /\ after_dollar)
        => status' = "ok" /\ output' = output]_vars

C19_Witness ==
  /\ Finished
  /\ template = <<"$", "$", "$">>
  /\ status = "ok"
  /\ after_dollar
  /\ output = <<"$">>
=============================================================================
